---- MODULE Spec2Model ----
(***************************************************************************)
(* Model of the customer-complaints dashboard: the CFPB API client         *)
(* (src/cfpb_api_client.py) and the Streamlit page (src/Home.py).          *)
(*                                                                         *)
(* Strings that the code inspects character by character (narratives) are  *)
(* sequences of one-character strings; dictionaries whose insertion order  *)
(* the code observes (kwargs) are sequences of <<key, value>> pairs with   *)
(* distinct keys; JSON documents are records.                              *)
(***************************************************************************)
EXTENDS Integers, Sequences, FiniteSets, TLC

VARIABLES
    calls,          \* the API-client calls made by the last operation, in order
    raw_narrative,  \* a complaint narrative as the search endpoint returns it
    passes,         \* its clean_narratives value after 1, 2, ... applications
    aggregation,    \* the category buckets of a trend response
    table,          \* <<>>, or <<outcome of building the trend table from them>>
    search_results, \* st.session_state['search_results']
    trend,          \* st.session_state['trend']
    generated,      \* st.session_state['generated']
    summary,        \* st.session_state['summary']
    page            \* what the last run of the script rendered

vars == <<calls, raw_narrative, passes, aggregation, table,
          search_results, trend, generated, summary, page>>

clientVars == <<calls>>
redactVars == <<raw_narrative, passes>>
reshapeVars == <<aggregation, table>>
sessionVars == <<search_results, trend, generated, summary, page>>

(***************************************************************************)
(* Generic helpers                                                         *)
(***************************************************************************)
Range(s) == {s[i] : i \in DOMAIN s}

\* Sequences over S of length at most n, without repeated elements.
RECURSIVE DistinctSeqs(_, _)
DistinctSeqs(S, n) ==
    IF n = 0 THEN {<<>>}
    ELSE LET shorter == DistinctSeqs(S, n - 1)
         IN  shorter \cup UNION {{Append(s, x) : x \in S \ Range(s)} : s \in shorter}

(***************************************************************************)
(* src/cfpb_api_client.py                                                  *)
(***************************************************************************)
\* valid_params of search_complaints
SearchValidParams ==
    {"search_term", "field", "frm", "size", "sort", "format", "no_aggs", "no_highlight",
     "company", "company_public_response", "company_received_max", "company_received_min",
     "company_response", "consumer_consent_provided", "consumer_disputed", "date_received_max",
     "date_received_min", "has_narrative", "issue", "product", "state", "submitted_via", "tags",
     "timely", "zip_code"}

\* valid_params of get_trend
TrendValidParams ==
    {"search_term", "field", "company", "company_public_response", "company_received_max",
     "company_received_min", "company_response", "consumer_consent_provided", "consumer_disputed",
     "date_received_max", "date_received_min", "focus", "has_narrative", "issue", "lens",
     "product", "state", "submitted_via", "sub_lens", "sub_lens_depth", "tags", "timely",
     "trend_depth", "trend_interval", "zip_code"}

\* keys of a kwargs dictionary, in insertion order
Keys(kwargs) == [i \in DOMAIN kwargs |-> kwargs[i][1]]

IsKept(pair, valid_params) == pair[1] \in valid_params
IsRejected(pair, valid_params) == pair[1] \notin valid_params

\* faulty variant: the filter condition is dropped
FilterParamsUnfiltered(kwargs, valid_params) == kwargs

\* params = {k: v for k, v in kwargs.items() if k in valid_params}
FilterParams(kwargs, valid_params) ==
    SelectSeq(kwargs, LAMBDA pair : IsKept(pair, valid_params))

\* faulty variant: the rejected keys are computed with the condition inverted
InvalidParamsInverted(kwargs, valid_params) ==
    Keys(SelectSeq(kwargs, LAMBDA pair : IsKept(pair, valid_params)))

\* invalid_params = [k for k in kwargs.keys() if k not in valid_params]
InvalidParams(kwargs, valid_params) ==
    Keys(SelectSeq(kwargs, LAMBDA pair : IsRejected(pair, valid_params)))

\* if invalid_params: print(f"Invalid parameters: {invalid_params}")
\* (the json.dumps(params) echo is printed first, always)
Printed(params, invalid_params) ==
    <<[line |-> "params", keys |-> Keys(params)]>>
    \o (IF invalid_params # <<>>
        THEN <<[line |-> "Invalid parameters", keys |-> invalid_params]>>
        ELSE <<>>)

Returned(v) == [kind |-> "return", value |-> v]
Raised(e) == [kind |-> "raise", exc |-> e]

\* response.json(): the decoded body, or JSONDecodeError when the body is no JSON
Json(response) ==
    IF response.body.kind = "json" THEN Returned(response.body.value)
    ELSE Raised("JSONDecodeError")

ErrorPayload(status_code) == [error |-> "Failed to fetch data", status_code |-> status_code]

\* faulty variant: the status check is dropped, the body is decoded whatever the status
RespondUnchecked(response) == Json(response)

\* if response.status_code == 200: return response.json()
\* else: return {"error": "Failed to fetch data", "status_code": response.status_code}
Respond(response) ==
    IF response.status_code = 200 THEN Json(response)
    ELSE Returned(ErrorPayload(response.status_code))

BaseUrl == "https://www.consumerfinance.gov/data-research/consumer-complaints/search/api/v1/"

search_complaints(kwargs, response) ==
    LET params == FilterParams(kwargs, SearchValidParams)
        invalid_params == InvalidParams(kwargs, SearchValidParams)
    IN  [method |-> "search_complaints", kwargs |-> kwargs,
         url |-> <<BaseUrl>>, params |-> params,
         invalid_params |-> invalid_params,
         printed |-> Printed(params, invalid_params),
         response |-> response, outcome |-> Respond(response)]

get_complaint(complaintId, response) ==
    [method |-> "get_complaint", kwargs |-> <<>>,
     url |-> <<BaseUrl, "/", complaintId>>, params |-> <<>>,
     invalid_params |-> <<>>, printed |-> <<>>,
     response |-> response, outcome |-> Respond(response)]

get_trend(kwargs, response) ==
    LET params == FilterParams(kwargs, TrendValidParams)
        invalid_params == InvalidParams(kwargs, TrendValidParams)
    IN  [method |-> "get_trend", kwargs |-> kwargs,
         url |-> <<BaseUrl, "trends/">>, params |-> params,
         invalid_params |-> invalid_params,
         printed |-> Printed(params, invalid_params),
         response |-> response, outcome |-> Respond(response)]

ValidParamsOf(method) ==
    IF method = "search_complaints" THEN SearchValidParams ELSE TrendValidParams

(***************************************************************************)
(* src/Home.py: cleanup_narratives and the 500-character cap               *)
(***************************************************************************)
Letters ==
    {"a", "b", "c", "d", "e", "f", "g", "h", "i", "j", "k", "l", "m",
     "n", "o", "p", "q", "r", "s", "t", "u", "v", "w", "x", "y", "z",
     "A", "B", "C", "D", "E", "F", "G", "H", "I", "J", "K", "L", "M",
     "N", "O", "P", "Q", "R", "S", "T", "U", "V", "W", "X", "Y", "Z"}

Digits == {"0", "1", "2", "3", "4", "5", "6", "7", "8", "9"}

\* \w of the pattern (restricted to ASCII text)
IsWordChar(c) == c \in Letters \cup Digits \cup {"_"}

\* [^a-zA-Z\d] of the pattern
IsSeparator(c) == c \notin Letters \cup Digits

\* \b followed by X: position i holds an X that is not preceded by a word character
StartsMatch(s, i) == s[i] = "X" /\ (i = 1 \/ ~IsWordChar(s[i - 1]))

\* X+ (greedy): the last position of the run of X that starts at position i
XRunEnd(s, i) ==
    CHOOSE e \in i..Len(s) :
        /\ \A k \in i..e : s[k] = "X"
        /\ e = Len(s) \/ s[e + 1] # "X"

\* (?:[^a-zA-Z\d]X+)* (greedy): e is the end of the run matched so far
RECURSIVE MatchEnd(_, _)
MatchEnd(s, e) ==
    IF e + 2 <= Len(s) /\ IsSeparator(s[e + 1]) /\ s[e + 2] = "X"
    THEN MatchEnd(s, XRunEnd(s, e + 2))
    ELSE e

\* replacement = '[R]'
Replacement == <<"[", "R", "]">>

\* the scan of re.sub is evaluated a stretch of the text at a time
ScanStretch == 25

\* re.sub from position i on, for the matches and characters that start at or
\* before position stop: the text produced and the position the scan has reached
RECURSIVE ScanTo(_, _, _, _)
ScanTo(s, i, stop, replacement) ==
    IF i > stop \/ i > Len(s) THEN [out |-> <<>>, next |-> i]
    ELSE IF StartsMatch(s, i)
         THEN LET rest == ScanTo(s, MatchEnd(s, XRunEnd(s, i)) + 1, stop, replacement)
              IN  [out |-> replacement \o rest.out, next |-> rest.next]
         ELSE LET rest == ScanTo(s, i + 1, stop, replacement)
              IN  [out |-> <<s[i]>> \o rest.out, next |-> rest.next]

\* re.sub from position i on: leftmost non-overlapping matches, each replaced
RECURSIVE SubFrom(_, _, _)
SubFrom(s, i, replacement) ==
    IF i > Len(s) THEN <<>>
    ELSE LET part == ScanTo(s, i, i + ScanStretch - 1, replacement)
         IN  part.out \o SubFrom(s, part.next, replacement)

\* faulty variant: the replacement token of the code's comment ("[redacted]")
RegexReplaceRedacted(s) ==
    SubFrom(s, 1, <<"[", "r", "e", "d", "a", "c", "t", "e", "d", "]">>)

\* str.replace(r'\bX+(?:[^a-zA-Z\d]X+)*', '[R]', regex=True) on one string
RegexReplace(s) == SubFrom(s, 1, Replacement)

\* cleanup_narratives: the substitution on every element of the series
cleanup_narratives(series) == [i \in DOMAIN series |-> RegexReplace(series[i])]

\* the cap of fetch_data: .str.slice(0, 500)
SliceStop == 500

StrSlice(s, stop) == SubSeq(s, 1, IF Len(s) < stop THEN Len(s) ELSE stop)

\* faulty variant: the cap is applied before the substitution
CleanNarrativesSliceFirst(series) ==
    cleanup_narratives([i \in DOMAIN series |-> StrSlice(series[i], SliceStop)])

\* df_result['clean_narratives']: the substitution, then the cap
CleanNarratives(series) ==
    LET cleaned == cleanup_narratives(series)
    IN  [i \in DOMAIN cleaned |-> StrSlice(cleaned[i], SliceStop)]

(***************************************************************************)
(* src/Home.py: the trend table of fetch_data                              *)
(***************************************************************************)
\* pd.to_datetime on the timestamps the endpoints return (month buckets of the
\* trend, date_received of a complaint), as the calendar date yyyymmdd
ToDatetime(label) ==
    CASE label = "2024-01-01T00:00:00.000Z" -> 20240101
      [] label = "2024-02-01T00:00:00.000Z" -> 20240201
      [] label = "2024-03-01T00:00:00.000Z" -> 20240301
      [] label = "2024-01-30T12:00:00-05:00" -> 20240130
      [] label = "2024-01-31T12:00:00-05:00" -> 20240131

\* the strings pd.to_datetime parses; on any other it raises a ValueError
\* (DateParseError)
Parses(label) ==
    label \in {"2024-01-01T00:00:00.000Z", "2024-02-01T00:00:00.000Z",
               "2024-03-01T00:00:00.000Z", "2024-01-30T12:00:00-05:00",
               "2024-01-31T12:00:00-05:00"}

\* pd.DataFrame(item["trend_period"]['buckets'])[['key_as_string', 'doc_count']],
\* renamed and indexed by Date: KeyError when the bucket list is empty (a frame
\* without columns)
ItemFrame(item) ==
    IF item.trend_period.buckets = <<>> THEN Raised("KeyError")
    ELSE Returned([column |-> item.key,
                   index |-> [i \in DOMAIN item.trend_period.buckets |->
                                 item.trend_period.buckets[i].key_as_string],
                   values |-> [i \in DOMAIN item.trend_period.buckets |->
                                 item.trend_period.buckets[i].doc_count]])

\* the labels of index that are not in seen, in the order of index
NewLabels(index, seen) == SelectSeq(index, LAMBDA l : l \notin Range(seen))

\* faulty variant: the frames are joined on the labels they all share (join="inner")
RECURSIVE InnerIndex(_)
InnerIndex(frames) ==
    IF Len(frames) = 1 THEN frames[1].index
    ELSE SelectSeq(InnerIndex(SubSeq(frames, 1, Len(frames) - 1)),
                   LAMBDA l : l \in Range(frames[Len(frames)].index))

\* the row labels of pd.concat(data, axis=1): the union of the frames' indexes,
\* unsorted (sort=False), each label at its first appearance
RECURSIVE UnionIndex(_)
UnionIndex(frames) ==
    IF frames = <<>> THEN <<>>
    ELSE LET before == UnionIndex(SubSeq(frames, 1, Len(frames) - 1))
         IN  before \o NewLabels(frames[Len(frames)].index, before)

\* the cell of frame at label: <<count>>, or <<>> (NaN) when the frame has no such row
Cell(frame, label) ==
    IF \E i \in DOMAIN frame.index : frame.index[i] = label
    THEN <<frame.values[CHOOSE i \in DOMAIN frame.index : frame.index[i] = label]>>
    ELSE <<>>

\* .fillna(value) on one cell
FillNa(cell, value) == IF cell = <<>> THEN value ELSE cell[1]

\* pd.concat(data, axis=1).reset_index(), Date parsed, NaN filled with 0:
\* ValueError when data is empty ("No objects to concatenate") and when a row
\* label is not a date
ConcatFrames(data) ==
    IF data = <<>> THEN Raised("ValueError")
    ELSE LET index == UnionIndex(data)
         IN  IF \E r \in DOMAIN index : ~Parses(index[r]) THEN Raised("ValueError")
             ELSE Returned(
               [columns |-> <<"Date">> \o [i \in DOMAIN data |-> data[i].column],
                rows |-> [r \in DOMAIN index |->
                            <<ToDatetime(index[r])>>
                            \o [i \in DOMAIN data |-> FillNa(Cell(data[i], index[r]), 0)]]])

\* lines 122-133 of fetch_data on the buckets of the trend response
TrendTable(buckets) ==
    LET frames == [i \in DOMAIN buckets |-> ItemFrame(buckets[i])]
    IN  IF \E i \in DOMAIN frames : frames[i].kind = "raise"
        THEN Raised("KeyError")
        ELSE ConcatFrames([i \in DOMAIN frames |-> frames[i].value])

(***************************************************************************)
(* src/Home.py: fetch_data, summarize and the page                         *)
(***************************************************************************)
DEFAULT_SUMMARY == [kind |-> "default", of |-> <<>>]

\* the order of Python's string comparison on the strings the results are sorted by
StrRank(str) ==
    CASE str = "8256566" -> 1
      [] str = "8258217" -> 2
      [] str = "8261625" -> 3
      [] str = "Checking or savings account" -> 4
      [] str = "Credit card" -> 5
      [] str = "JPMORGAN CHASE & CO." -> 6

\* by=['company', 'date_received', 'product', 'complaint_id'] of fetch_data
SortKey(row) ==
    <<StrRank(row.company), row.date_received, StrRank(row.product), StrRank(row.complaint_id)>>

\* by=['company', 'date_received', 'product'] of summarize
SummarizeSortKey(row) ==
    <<StrRank(row.company), row.date_received, StrRank(row.product)>>

KeyLeq(a, b) ==
    \/ a = b
    \/ \E i \in DOMAIN a : a[i] < b[i] /\ \A j \in 1..(i - 1) : a[j] = b[j]

RemoveAt(s, i) == SubSeq(s, 1, i - 1) \o SubSeq(s, i + 1, Len(s))

\* df.sort_values(by=[...]): the rows in ascending key order, ties in their old order
RECURSIVE SortKeyed(_)
SortKeyed(keyed) ==
    IF keyed = <<>> THEN <<>>
    ELSE LET least == {i \in DOMAIN keyed :
                          \A j \in DOMAIN keyed : KeyLeq(keyed[i].key, keyed[j].key)}
             first == CHOOSE i \in least : \A j \in least : i <= j
         IN  <<keyed[first].row>> \o SortKeyed(RemoveAt(keyed, first))

\* df_result.sort_values(by=['company', 'date_received', 'product', 'complaint_id'])
SortValues(rows) ==
    SortKeyed([i \in DOMAIN rows |-> [key |-> SortKey(rows[i]), row |-> rows[i]]])

\* df_in.sort_values(by=['company', 'date_received', 'product'])
SummarizeSortValues(rows) ==
    SortKeyed([i \in DOMAIN rows |-> [key |-> SummarizeSortKey(rows[i]), row |-> rows[i]]])

\* pd.DataFrame(list of records): the columns are the keys the records have
DataFrame(records) ==
    [columns |-> UNION {DOMAIN records[i] : i \in DOMAIN records}, rows |-> records]

Empty(df) == df.rows = <<>> \/ df.columns = {}

\* lines 105-106: ValueError when a date of the results is not a date
DatesParse(df) ==
    \A i \in DOMAIN df.rows :
        Parses(df.rows[i].date_received) /\ Parses(df.rows[i].date_sent_to_company)

\* lines 105-112: the dates parsed, the rows sorted, clean_narratives added
CleanResults(df) ==
    LET parsed == [i \in DOMAIN df.rows |->
                      [df.rows[i] EXCEPT
                          !.date_received = ToDatetime(@),
                          !.date_sent_to_company = ToDatetime(@)]]
        sorted == SortValues(parsed)
        clean == CleanNarratives([i \in DOMAIN sorted |-> sorted[i].complaint_what_happened])
    IN  [columns |-> df.columns \cup {"clean_narratives"},
         rows |-> [i \in DOMAIN sorted |->
                      [complaint_id |-> sorted[i].complaint_id,
                       company |-> sorted[i].company,
                       product |-> sorted[i].product,
                       date_received |-> sorted[i].date_received,
                       date_sent_to_company |-> sorted[i].date_sent_to_company,
                       complaint_what_happened |-> sorted[i].complaint_what_happened,
                       clean_narratives |-> clean[i]]]]

\* faulty variant: generated is reset before the requests are made
FetchResultFlagReset(made, outcome, trend_, generated_) ==
    [calls |-> made, outcome |-> outcome, trend |-> trend_, generated |-> FALSE]

\* what fetch_data leaves behind: the calls it made, its return value or its
\* exception, and the session entries as it left them
FetchResult(made, outcome, trend_, generated_) ==
    [calls |-> made, outcome |-> outcome, trend |-> trend_, generated |-> generated_]

fetch_data(kwargs, search_response, trend_response, trend_, generated_) ==
    LET search_call ==
            search_complaints(<<<<"field", "all">>, <<"sort", "created_date_desc">>>> \o kwargs,
                              search_response)
        trend_call ==
            get_trend(<<<<"field", "all">>, <<"trend_interval", "month">>,
                        <<"lens", "product">>, <<"sub_lens", "sub_product">>>> \o kwargs,
                      trend_response)
        search_doc == search_call.outcome.value
        trend_doc == trend_call.outcome.value
        df_hits == DataFrame([i \in DOMAIN search_doc.hits.hits |-> search_doc.hits.hits[i]._source])
        df_result == IF "complaint_what_happened" \in df_hits.columns
                     THEN CleanResults(df_hits) ELSE df_hits
        built == TrendTable(trend_doc.aggregations.product.product.buckets)
    IN  IF search_call.outcome.kind = "raise"
        THEN FetchResult(<<search_call>>, search_call.outcome, trend_, generated_)
        ELSE IF "hits" \notin DOMAIN search_doc
        THEN FetchResult(<<search_call>>, Raised("KeyError"), trend_, generated_)
        ELSE IF "complaint_what_happened" \in df_hits.columns /\ ~DatesParse(df_hits)
        THEN FetchResult(<<search_call>>, Raised("ValueError"), trend_, generated_)
        ELSE IF trend_call.outcome.kind = "raise"
        THEN FetchResult(<<search_call, trend_call>>, trend_call.outcome, trend_, generated_)
        ELSE IF "aggregations" \notin DOMAIN trend_doc
        THEN FetchResult(<<search_call, trend_call>>, Raised("KeyError"), trend_, generated_)
        ELSE IF built.kind = "raise"
        THEN FetchResult(<<search_call, trend_call>>, built, trend_, generated_)
        ELSE FetchResult(<<search_call, trend_call>>, Returned(df_result), built.value, FALSE)

\* the text the completion service returns is any text; the model keeps which
\* complaints were in the prompt it answered, in the order of the prompt
SummaryOf(rows) ==
    [kind |-> "generated", of |-> [i \in DOMAIN rows |-> rows[i].complaint_id]]

\* what summarize leaves behind: its return value or its exception, and
\* session_state['generated'] as it left it
SummarizeResult(outcome, generated_) == [outcome |-> outcome, generated |-> generated_]

\* summarize: KeyError when df_in lacks a column it sorts or selects by (lines
\* 144-146), the completion service's error when the request fails (line 156);
\* line 165 then sets generated, and line 167 reads the text of the first choice
\* of the response: IndexError when the response has no choice
summarize(df_in, completion, generated_) ==
    IF ~({"company", "date_received", "product", "complaint_id", "clean_narratives"}
            \subseteq df_in.columns)
    THEN SummarizeResult(Raised("KeyError"), generated_)
    ELSE IF completion.kind = "raise"
    THEN SummarizeResult(completion, generated_)
    ELSE IF completion.value.choices = <<>>
    THEN SummarizeResult(Raised("IndexError"), TRUE)
    ELSE SummarizeResult(Returned(SummaryOf(SummarizeSortValues(df_in.rows))), TRUE)

\* the rest of the script after the button handlers: nothing more is rendered
\* once a handler has raised; else the results section and, if generated, the summary
Render(exception, search_results_, generated_, summary_) ==
    IF exception # "none"
    THEN [exception |-> exception, results |-> "none", summary |-> <<>>]
    ELSE [exception |-> "none",
          results |-> IF Empty(search_results_) THEN "No results found." ELSE "table",
          summary |-> IF generated_ THEN <<summary_>> ELSE <<>>]

ExceptionOf(outcome) == IF outcome.kind = "raise" THEN outcome.exc ELSE "none"

(***************************************************************************)
(* Bounds and inputs                                                       *)
(***************************************************************************)
MaxKwargs == 2      \* keyword arguments of a direct client call
MaxTail == 3        \* free characters of a narrative
MaxPasses == 2      \* applications of the narrative clean-up
MaxCats == 2        \* category buckets of a trend response
MaxBuckets == 2     \* time buckets of a category
MaxHits == 2        \* hits of a search response

\* --- the remote service
ErrorStatuses == {404, 500}

Ok(doc) == [status_code |-> 200, body |-> [kind |-> "json", value |-> doc]]
Failed(status_code) == [status_code |-> status_code, body |-> [kind |-> "html", value |-> <<>>]]

HitsDoc(hits) == [hits |-> [hits |-> [i \in DOMAIN hits |-> [_source |-> hits[i]]]]]
TrendDoc(buckets) == [aggregations |-> [product |-> [product |-> [buckets |-> buckets]]]]

HitPool ==
    {[complaint_id |-> "8256566", company |-> "JPMORGAN CHASE & CO.",
      product |-> "Checking or savings account",
      date_received |-> "2024-01-31T12:00:00-05:00",
      date_sent_to_company |-> "2024-01-31T12:00:00-05:00",
      complaint_what_happened |-> <<"O", "n", " ", "X", "X", "/", "X", "X", " ", "f", "e", "e">>],
     [complaint_id |-> "8258217", company |-> "JPMORGAN CHASE & CO.",
      product |-> "Credit card",
      date_received |-> "2024-01-30T12:00:00-05:00",
      date_sent_to_company |-> "2024-01-31T12:00:00-05:00",
      complaint_what_happened |-> <<"c", "a", "r", "d", " ", "X", "X", "X", "X", "1", "2">>]}

\* a complaint whose date pd.to_datetime does not parse
UndatedHit ==
    [complaint_id |-> "8263000", company |-> "JPMORGAN CHASE & CO.",
     product |-> "Credit card",
     date_received |-> "pending",
     date_sent_to_company |-> "2024-01-31T12:00:00-05:00",
     complaint_what_happened |-> <<"f", "e", "e">>]

SearchResponses ==
    {Ok(HitsDoc(hits)) : hits \in DistinctSeqs(HitPool, MaxHits)}
    \cup {Ok(HitsDoc(<<UndatedHit>>))}
    \cup {Failed(status_code) : status_code \in ErrorStatuses}

\* --- trend responses: distinct category keys (a terms aggregation), distinct
\* month labels within a category (a date histogram), in any order
CategoryLabels == {"Mortgage", "Credit card"}
Timestamps ==
    {"2024-01-01T00:00:00.000Z", "2024-02-01T00:00:00.000Z", "2024-03-01T00:00:00.000Z"}
DocCounts == {3, 5}

BucketSeqs ==
    UNION {{[i \in DOMAIN ts |-> [key_as_string |-> ts[i], doc_count |-> cs[i]]] :
               cs \in [DOMAIN ts -> DocCounts]} :
           ts \in DistinctSeqs(Timestamps, MaxBuckets)}

Aggregations ==
    UNION {{[i \in DOMAIN ks |-> [key |-> ks[i], trend_period |-> [buckets |-> bs[i]]]] :
               bs \in [DOMAIN ks -> BucketSeqs]} :
           ks \in DistinctSeqs(CategoryLabels, MaxCats)}

Bucket(label, count) == [key_as_string |-> label, doc_count |-> count]

\* the trend responses of the page's runs: no category, one category, two
\* categories that cover different months, a month label that is not a date
PageAggregations ==
    {<<>>,
     <<[key |-> "Mortgage", trend_period |-> [buckets |-> <<Bucket("pending", 3)>>]]>>,
     <<[key |-> "Mortgage", trend_period |-> [buckets |->
           <<Bucket("2024-01-01T00:00:00.000Z", 3), Bucket("2024-02-01T00:00:00.000Z", 5)>>]]>>,
     <<[key |-> "Mortgage", trend_period |-> [buckets |->
           <<Bucket("2024-02-01T00:00:00.000Z", 5)>>]],
       [key |-> "Credit card", trend_period |-> [buckets |->
           <<Bucket("2024-01-01T00:00:00.000Z", 3), Bucket("2024-02-01T00:00:00.000Z", 3)>>]]>>}

TrendResponses ==
    {Ok(TrendDoc(buckets)) : buckets \in PageAggregations}
    \cup {Failed(status_code) : status_code \in ErrorStatuses}

\* --- what client.chat.completions.create comes to: a response with one
\* choice, a response without a choice, an error of the service
Completions ==
    {Returned([choices |-> <<"text">>]), Returned([choices |-> <<>>]), Raised("APIError")}

\* --- direct client calls
\* "size" is known to the search endpoint only, "lens" to the trend endpoint
\* only, "company" to both, "bogus_key" to neither
KwKeys == {"size", "lens", "company", "bogus_key"}

KwValues(key) ==
    CASE key = "size" -> {"20", "5"}
      [] key = "lens" -> {"product"}
      [] key = "company" -> {"JPMORGAN CHASE & CO."}
      [] key = "bogus_key" -> {"x"}

KwargsInputs ==
    UNION {{[i \in DOMAIN ks |-> <<ks[i], vs[i]>>] :
               vs \in {f \in [DOMAIN ks -> UNION {KwValues(k) : k \in KwKeys}] :
                          \A i \in DOMAIN ks : f[i] \in KwValues(ks[i])}} :
           ks \in DistinctSeqs(KwKeys, MaxKwargs)}

ClientResponses ==
    {Ok(HitsDoc(<<>>)), Ok(TrendDoc(<<>>)),
     [status_code |-> 200, body |-> [kind |-> "csv", value |-> <<>>]]}
    \cup {Failed(status_code) : status_code \in ErrorStatuses}
    \cup {[status_code |-> status_code, body |-> [kind |-> "json", value |-> HitsDoc(<<>>)]] :
             status_code \in ErrorStatuses}

ComplaintIds == {"8256566", "0"}

\* --- narratives: a filler that brings the text to the cap, then free characters
NarrativeAlphabet == {"X", "a", "1", " ", "_"}

RECURSIVE Strings(_, _)
Strings(S, n) ==
    IF n = 0 THEN {<<>>}
    ELSE Strings(S, n - 1) \cup {Append(s, c) : s \in Strings(S, n - 1), c \in S}

Repeat(unit, n) == [i \in 1..(n * Len(unit)) |-> unit[((i - 1) % Len(unit)) + 1]]

\* fillers: none; letters up to the cap; masked words two spaces apart, each of
\* which the clean-up lengthens from 3 to 5 characters
Fillers ==
    {<<>>}
    \cup {Repeat(<<"a">>, n) : n \in (SliceStop - MaxTail)..SliceStop}
    \cup {Repeat(<<"X", " ", " ">>, n) : n \in {(SliceStop \div 5) - 1, SliceStop \div 5}}

ExampleNarrative ==
    <<"A", "c", "c", "o", "u", "n", "t", " ", "X", "X", "X", "X", "1", "2", "3", " ",
      "w", "a", "s", " ", "c", "l", "o", "s", "e", "d">>

NarrativeInputs ==
    {filler \o tail : filler \in Fillers, tail \in Strings(NarrativeAlphabet, MaxTail)}
    \cup {ExampleNarrative}

(***************************************************************************)
(* State machines                                                          *)
(***************************************************************************)
\* pd.read_csv('complaints.csv') and pd.read_csv('trend.csv'): the results and
\* the trend the page ships with
InitialResults ==
    [columns |-> {"complaint_id", "company", "product", "date_received",
                  "date_sent_to_company", "complaint_what_happened", "clean_narratives"},
     rows |-> <<[complaint_id |-> "8261625", company |-> "JPMORGAN CHASE & CO.",
                 product |-> "Checking or savings account",
                 date_received |-> 20240131, date_sent_to_company |-> 20240131,
                 complaint_what_happened |-> <<"X", "X", "X", "X">>,
                 clean_narratives |-> <<"[", "R", "]">>]>>]

InitialTrend ==
    [columns |-> <<"Date", "Checking or savings account">>, rows |-> <<<<20240101, 3>>>>]

InitSession ==
    /\ search_results = InitialResults
    /\ trend = InitialTrend
    /\ generated = TRUE
    /\ summary = DEFAULT_SUMMARY
    /\ page = Render("none", InitialResults, TRUE, DEFAULT_SUMMARY)

Init ==
    /\ InitSession
    /\ calls = <<>>
    /\ raw_narrative = <<>> /\ passes = <<>>
    /\ aggregation = <<>> /\ table = <<>>

\* --- the page: every action is one run of the script
\* the keyword arguments of the Fetch Data handler, the sidebar widgets at
\* their default values
FetchKwargs ==
    <<<<"company", "JPMORGAN CHASE & CO.">>, <<"size", "20">>,
      <<"date_received_min", "2023-01-01">>, <<"date_received_max", "2023-12-31">>,
      <<"has_narrative", "true">>>>

\* "Fetch Data" pressed
FetchData ==
    \E search_response \in SearchResponses, trend_response \in TrendResponses :
        LET r == fetch_data(FetchKwargs, search_response, trend_response,
                            trend, generated)
            results == IF r.outcome.kind = "return" THEN r.outcome.value ELSE search_results
        IN  /\ calls' = r.calls
            /\ trend' = r.trend
            /\ generated' = r.generated
            /\ search_results' = results
            /\ summary' = summary
            /\ page' = Render(ExceptionOf(r.outcome), results, r.generated, summary)
            /\ UNCHANGED <<redactVars, reshapeVars>>

\* "Generate Summary" pressed: the button is on the page and not disabled
GenerateSummary ==
    /\ page.exception = "none"
    /\ ~Empty(search_results)
    /\ \E completion \in Completions :
        LET r == summarize(search_results, completion, generated)
            text == IF r.outcome.kind = "return" THEN r.outcome.value ELSE summary
        IN  /\ generated' = r.generated
            /\ summary' = text
            /\ page' = Render(ExceptionOf(r.outcome), search_results, r.generated, text)
            /\ calls' = <<>>
            /\ UNCHANGED <<search_results, trend, redactVars, reshapeVars>>

\* any other widget touched: the script runs with no button pressed
Rerun ==
    /\ page' = Render("none", search_results, generated, summary)
    /\ calls' = <<>>
    /\ UNCHANGED <<search_results, trend, generated, summary, redactVars, reshapeVars>>

Next == FetchData \/ GenerateSummary \/ Rerun

Spec == Init /\ [][Next]_vars

\* --- the client used on its own
CallSearchComplaints ==
    \E kwargs \in KwargsInputs, response \in ClientResponses :
        /\ calls' = <<search_complaints(kwargs, response)>>
        /\ UNCHANGED <<redactVars, reshapeVars, sessionVars>>

CallGetComplaint ==
    \E complaintId \in ComplaintIds, response \in ClientResponses :
        /\ calls' = <<get_complaint(complaintId, response)>>
        /\ UNCHANGED <<redactVars, reshapeVars, sessionVars>>

CallGetTrend ==
    \E kwargs \in KwargsInputs, response \in ClientResponses :
        /\ calls' = <<get_trend(kwargs, response)>>
        /\ UNCHANGED <<redactVars, reshapeVars, sessionVars>>

NextClient == CallSearchComplaints \/ CallGetComplaint \/ CallGetTrend

SpecClient == Init /\ [][NextClient]_vars

\* --- the narrative clean-up on its own, applied to its own output again
InitRedact ==
    /\ InitSession
    /\ calls = <<>>
    /\ raw_narrative \in NarrativeInputs /\ passes = <<>>
    /\ aggregation = <<>> /\ table = <<>>

Clean ==
    /\ Len(passes) < MaxPasses
    /\ LET series == <<IF passes = <<>> THEN raw_narrative ELSE passes[Len(passes)]>>
       IN  passes' = Append(passes, CleanNarratives(series)[1])
    /\ UNCHANGED <<raw_narrative, clientVars, reshapeVars, sessionVars>>

NextRedact == Clean

SpecRedact == InitRedact /\ [][NextRedact]_vars

\* --- the trend table on its own
InitReshape ==
    /\ InitSession
    /\ calls = <<>>
    /\ raw_narrative = <<>> /\ passes = <<>>
    /\ aggregation \in Aggregations /\ table = <<>>

Reshape ==
    /\ table = <<>>
    /\ table' = <<TrendTable(aggregation)>>
    /\ UNCHANGED <<aggregation, clientVars, redactVars, sessionVars>>

NextReshape == Reshape

SpecReshape == InitReshape /\ [][NextReshape]_vars

(***************************************************************************)
(* Claims                                                                  *)
(***************************************************************************)
FilteringCalls == {c \in Range(calls) : c.method \in {"search_complaints", "get_trend"}}

\* C1: the parameters sent to the search or trend endpoint have keys that are
\* among the caller's keys and in that endpoint's allow-list, and every
\* parameter sent is a key-value pair exactly as the caller supplied it.
C1_SentParamsAreFilteredInput ==
    \A c \in FilteringCalls :
        /\ Range(Keys(c.params)) \subseteq Range(Keys(c.kwargs)) \cap ValidParamsOf(c.method)
        /\ Range(c.params) \subseteq Range(c.kwargs)

\* C1 witness: a call whose arguments held a key that was kept and one that was not
C1_Witness ==
    \E c \in FilteringCalls : c.params # <<>> /\ Len(c.params) < Len(c.kwargs)

\* C2: the rejected keys are exactly the caller's keys outside the allow-list,
\* each once, so every key is kept or rejected; when there are any they are
\* printed; input without a valid key gives empty parameters and all keys
\* rejected; {size: 20, bogus_key: x} on search gives {size: 20} and [bogus_key].
C2_RejectedKeysReported ==
    \A c \in FilteringCalls :
        /\ Range(c.invalid_params) = Range(Keys(c.kwargs)) \ ValidParamsOf(c.method)
        /\ Len(c.invalid_params) = Cardinality(Range(c.invalid_params))
        /\ Range(Keys(c.params)) \cup Range(c.invalid_params) = Range(Keys(c.kwargs))
        /\ Len(c.params) + Len(c.invalid_params) = Len(c.kwargs)
        /\ c.invalid_params # <<>> =>
              \E i \in DOMAIN c.printed :
                  c.printed[i] = [line |-> "Invalid parameters", keys |-> c.invalid_params]
        /\ Range(Keys(c.kwargs)) \cap ValidParamsOf(c.method) = {} =>
              c.params = <<>> /\ Len(c.invalid_params) = Len(c.kwargs)
        /\ (c.method = "search_complaints"
              /\ c.kwargs = <<<<"size", "20">>, <<"bogus_key", "x">>>>) =>
              c.params = <<<<"size", "20">>>> /\ c.invalid_params = <<"bogus_key">>

\* C2 witness: the example call has been made
C2_Witness ==
    \E c \in FilteringCalls :
        /\ c.method = "search_complaints"
        /\ c.kwargs = <<<<"size", "20">>, <<"bogus_key", "x">>>>

LabelsOf(item) == {item.trend_period.buckets[i].key_as_string : i \in DOMAIN item.trend_period.buckets}
AllLabels == UNION {LabelsOf(aggregation[i]) : i \in DOMAIN aggregation}
Built == table # <<>> /\ table[1].kind = "return"

\* the count of category item at the date, or 0 when it has no bucket there
CountAt(item, date) ==
    LET at == {i \in DOMAIN item.trend_period.buckets :
                  ToDatetime(item.trend_period.buckets[i].key_as_string) = date}
    IN  IF at = {} THEN 0 ELSE item.trend_period.buckets[CHOOSE i \in at : TRUE].doc_count

\* C4: the trend table has one row per distinct timestamp label of the response,
\* the Date column and one column per category, each cell holds the category's
\* count at the row's date and 0 where the category has no bucket; it is built
\* whenever the response has a category and every category has a bucket.
C4_TableIsOuterJoin ==
    /\ (table # <<>> /\ aggregation # <<>>
          /\ \A i \in DOMAIN aggregation : aggregation[i].trend_period.buckets # <<>>)
       => Built
    /\ Built =>
        LET t == table[1].value
        IN  /\ Len(t.rows) = Cardinality(AllLabels)
            /\ {t.rows[r][1] : r \in DOMAIN t.rows} = {ToDatetime(l) : l \in AllLabels}
            /\ t.columns = <<"Date">> \o [i \in DOMAIN aggregation |-> aggregation[i].key]
            /\ Len(t.columns) = 1 + Cardinality({aggregation[i].key : i \in DOMAIN aggregation})
            /\ \A r \in DOMAIN t.rows :
                  /\ Len(t.rows[r]) = Len(t.columns)
                  /\ \A i \in DOMAIN aggregation :
                        t.rows[r][i + 1] = CountAt(aggregation[i], t.rows[r][1])

\* C4 witness: a table built from two categories that cover different months, so
\* that it holds a cell filled with 0
C4_Witness ==
    /\ Built
    /\ Len(aggregation) = 2
    /\ LabelsOf(aggregation[1]) # LabelsOf(aggregation[2])
    /\ \E r \in DOMAIN table[1].value.rows : table[1].value.rows[r][2] = 0

\* C5: a trend response without category buckets yields a table with no rows and
\* only the Date column.
C5_EmptyResponseYieldsEmptyTable ==
    (table # <<>> /\ aggregation = <<>>) =>
        table[1] = Returned([columns |-> <<"Date">>, rows |-> <<>>])

\* C6: the rows of the trend table are in ascending order of Date.
C6_RowsAscendByDate ==
    Built =>
        \A r1, r2 \in DOMAIN table[1].value.rows :
            r1 < r2 => table[1].value.rows[r1][1] <= table[1].value.rows[r2][1]

\* --- the narrative clean-up
AsClaimed ==
    <<"A", "c", "c", "o", "u", "n", "t", " ", "[", "R", "]", " ",
      "w", "a", "s", " ", "c", "l", "o", "s", "e", "d">>

AsCleaned ==
    <<"A", "c", "c", "o", "u", "n", "t", " ", "[", "R", "]", "1", "2", "3", " ",
      "w", "a", "s", " ", "c", "l", "o", "s", "e", "d">>

IsPrefix(a, b) == Len(a) <= Len(b) /\ a = SubSeq(b, 1, Len(a))
DigitsOf(s) == SelectSeq(s, LAMBDA c : c \in Digits)

C8_CleanIsIdempotent ==
    \A i \in DOMAIN passes : i >= 2 => passes[i] = passes[1]

\* C8 witness: a narrative that the substitution changed and lengthened beyond
\* the cap, cleaned twice
C8_Witness ==
    /\ Len(passes) >= 2
    /\ passes[1] # raw_narrative
    /\ Len(RegexReplace(raw_narrative)) > SliceStop
    /\ Len(passes[1]) = SliceStop

\* --- the Fetch Data handler
\* C9: after a Fetch Data run in which the search or the trend request got a
\* status other than 200, the run has ended without an exception.
C9_ErrorPayloadInspected ==
    (\E c \in Range(calls) : c.response.status_code # 200) => page.exception = "none"

\* C10: after a Fetch Data run whose search result has no narrative column (no
\* hits), the run has ended without an exception and the page says that there
\* are no results.
C10_NoNarrativeColumnCompletes ==
    (/\ calls # <<>>
     /\ calls[1].outcome.kind = "return"
     /\ "hits" \in DOMAIN calls[1].outcome.value
     /\ calls[1].outcome.value.hits.hits = <<>>)
    => page.exception = "none" /\ page.results = "No results found."

\* --- the generated flag
\* C11: whenever the page shows the summary, the stored summary is the one
\* generated from the stored search results, or it is the default summary and
\* the stored results are the initial results.
C11_ShownSummaryIsOfStoredResults ==
    page.summary # <<>> =>
        \/ page.summary[1] = DEFAULT_SUMMARY /\ search_results = InitialResults
        \/ page.summary[1] = SummaryOf(SummarizeSortValues(search_results.rows))

\* --- a Fetch Data run that fails
\* the run that led to this state was a Fetch Data run
FetchRan == calls # <<>>
FetchFailed == FetchRan /\ page.exception # "none"
FetchSucceeded == FetchRan /\ page.exception = "none"

\* the results and the trend table that fetch_data builds from the documents
\* the two requests of one run returned
ResultsOfCall(call) ==
    LET df == DataFrame([i \in DOMAIN call.outcome.value.hits.hits |->
                            call.outcome.value.hits.hits[i]._source])
    IN  IF "complaint_what_happened" \in df.columns THEN CleanResults(df) ELSE df

TrendOfCall(call) ==
    TrendTable(call.outcome.value.aggregations.product.product.buckets).value

\* C12: a Fetch Data run that ends with an exception leaves search_results,
\* trend, generated and summary as they were; search_results or trend change
\* only in a Fetch Data run that succeeds, which stores the results and the
\* trend table built from the two responses of that run.
C12_FailedFetchKeepsSession ==
    [][/\ FetchFailed' => UNCHANGED <<search_results, trend, generated, summary>>
       /\ (search_results' # search_results \/ trend' # trend) =>
              /\ FetchSucceeded'
              /\ search_results' = ResultsOfCall(calls'[1])
              /\ trend' = TrendOfCall(calls'[2])]_vars

\* C12 witness: after a fetch and a summary that succeeded (generated is True,
\* results and trend are not the initial ones), a Fetch Data run has failed on
\* the date of a month bucket of the trend response
C12_Witness ==
    /\ FetchFailed
    /\ Len(calls) = 2
    /\ calls[2].response =
          Ok(TrendDoc(<<[key |-> "Mortgage",
                         trend_period |-> [buckets |-> <<Bucket("pending", 3)>>]]>>))
    /\ page.exception = "ValueError"
    /\ generated
    /\ summary # DEFAULT_SUMMARY
    /\ search_results # InitialResults
    /\ trend # InitialTrend

====
